---- MODULE Spec2Model ----
(***************************************************************************)
(* Partition routing and archival coordinator of nostream's distributed    *)
(* storage: add-storage-node.sh, remove-storage-node.sh, archive-events.sh *)
(* the partitioning migration and the hot-partition narrowing procedure.   *)
(*                                                                         *)
(* The relational engine is modelled by what its statements do: a range    *)
(* partition [from, to) is attached only if it is non-empty and overlaps   *)
(* no attached partition; a row written through the parent table is routed *)
(* to the partition whose range contains its key; a row written directly   *)
(* into a foreign table goes to that table's node whatever its key; psql   *)
(* fed from a here-document runs every statement and exits 0 even when one *)
(* of them fails.                                                          *)
(***************************************************************************)
EXTENDS Integers, Sequences, FiniteSets, TLC

\* ---------------------------------------------------------------------- \*
\* Bounds of the model                                                     \*
\* ---------------------------------------------------------------------- \*
MaxTs == 3          \* keys (event_created_at) are 0 .. MaxTs-1
MaxEv == 4          \* event identifiers are 1 .. MaxEv
MaxWin == 2         \* --batch-window is drawn from 1 .. MaxWin
MaxBatch == 2       \* --batch-size is drawn from 1 .. MaxBatch
MaxRuns == 2        \* archive invocations per behaviour
MaxTopoEv == 1      \* events the relay writes while the topology changes
MaxTagGen == 2      \* copies of an event's entries in event_tags told apart

\* MINVALUE and MAXVALUE of the partition bounds: below every key and above
\* every key of the bounded key space.
MINVALUE == 0
MAXVALUE == MaxTs

Keys == MINVALUE .. (MAXVALUE - 1)
BoundVals == MINVALUE .. MAXVALUE
EventIds == 1 .. MaxEv

\* Node names are character sequences so that the identifier check is an
\* actual check.
NodeNames == { <<"a">>, <<"b">> }
NameInputs == NodeNames \cup { <<"a", "-">> }
\* A name of two lines, as in $'a\n-', and the empty name.
NL == "\n"
MultiLine == << "a", NL, "-" >>
NameArgs == NameInputs \cup { MultiLine, << >> }
\* The keys nodes.json can come to hold: jq takes any string the name check
\* has let through.
JsonKeys == NodeNames \cup { MultiLine }
PubKeys == { "k1", "k2" }
NoKey == ""
Addrs == { "200::1" }
NoAddr == ""
NoRange == << >>

IdentChars ==
  { "a","b","c","d","e","f","g","h","i","j","k","l","m","n","o","p","q","r",
    "s","t","u","v","w","x","y","z","A","B","C","D","E","F","G","H","I","J",
    "K","L","M","N","O","P","Q","R","S","T","U","V","W","X","Y","Z","0","1",
    "2","3","4","5","6","7","8","9","_" }

\* [a-zA-Z0-9_]+ over a whole line; also what makes storage_<name> and
\* events_archive_<name> one SQL identifier.
IsIdent(n) == Len(n) >= 1 /\ \A i \in 1 .. Len(n) : n[i] \in IdentChars

\* The lines echo "$NODE_NAME" writes: the name cut at every newline.
RECURSIVE Lines(_)
Lines(n) ==
  IF \A i \in 1 .. Len(n) : n[i] # NL THEN { n }
  ELSE LET k == CHOOSE i \in 1 .. Len(n) :
                  n[i] = NL /\ \A j \in 1 .. (i - 1) : n[j] # NL
       IN  { SubSeq(n, 1, k - 1) } \cup Lines(SubSeq(n, k + 1, Len(n)))

\* echo "$NODE_NAME" | grep -qE '^[a-zA-Z0-9_]+$': grep reads its input
\* line by line and succeeds when some line matches.
ValidName(n) == \E l \in Lines(n) : IsIdent(l)

\* ---------------------------------------------------------------------- \*
\* Rows, ranges, tags                                                      \*
\* ---------------------------------------------------------------------- \*
\* Event identifiers are content hashes: an identifier fixes the row, so
\* the rows that can ever exist are one per identifier.  Identifiers 2 and
\* 3 share a created_at.
TsOf(id) == (id \div 2) % MaxTs
Rows == { [id |-> i, ts |-> TsOf(i)] : i \in EventIds }

\* Rows as a table holds them: the column id (uuid_generate_v4() unless the
\* statement supplies it) tells two rows of one event apart.
Uuids == { 1, 2 }
PhysRows == { [id |-> i, ts |-> TsOf(i), uid |-> u] : i \in EventIds, u \in Uuids }

\* event_kind, like the rest of the row, is fixed by the identifier.
KindOf(id) == << 1, 0, 30000, 7, 10002 >>[((id - 1) % 5) + 1]

\* The predicate of replaceable_events_idx.
Replaceable(kind) ==
  \/ kind = 0
  \/ kind = 3
  \/ kind = 41
  \/ (kind >= 10000 /\ kind < 20000)
  \/ (kind >= 30000 /\ kind < 40000)

InRange(t, rg) == rg # NoRange /\ rg[1] <= t /\ t < rg[2]
Overlaps(r1, r2) == r1 # NoRange /\ r2 # NoRange /\ r1[1] < r2[2] /\ r2[1] < r1[2]

IdsOf(S) == { r.id : r \in S }

\* An insert that does not look for the identifier: ON CONFLICT left out or
\* no unique index on event_id.
InsertSkipDup_Append(T, S) == T \cup S

\* ON CONFLICT (event_id) DO NOTHING against a unique index on event_id:
\* a row whose identifier is already present is skipped.  The rows of one
\* statement are added one after the other, lowest identifier first.
RECURSIVE InsertSkipDup(_, _)
InsertSkipDup(T, S) ==
  IF S = {} THEN T
  ELSE LET r == CHOOSE x \in S : \A y \in S : x.id <= y.id
       IN  InsertSkipDup(IF r.id \in IdsOf(T) THEN T ELSE T \cup {r}, S \ {r})

\* event_tags of an event: elements <<name, value>>, both character
\* sequences.  Event identifiers are content hashes, so the tags are a
\* function of the identifier.  Every fourth event has a value with a
\* double quote in it and a tag whose name is a backslash.
EventTagsOf(id) ==
  IF id % 2 = 1
  THEN { << <<"e">>, <<"x">> >>, << <<"e", "x">>, <<"y">> >>, << <<"p">>, << >> >> }
  ELSE IF id % 4 = 2
  THEN { << <<"p">>, <<"z">> >> }
  ELSE { << <<"p">>, <<"z">> >>, << <<"d">>, <<"a", "\"", "b">> >>,
         << <<"\\">>, <<"v">> >> }

\* The characters of a JSON string between its quotes: a double quote and a
\* backslash are written with a backslash before them.
RECURSIVE JsonEscape(_)
JsonEscape(s) ==
  IF s = << >> THEN << >>
  ELSE (IF Head(s) \in { "\"", "\\" } THEN << "\\", Head(s) >> ELSE << Head(s) >>)
       \o JsonEscape(Tail(s))

\* (tag_element->0)::text: the element as JSON text, quotes included.
JsonText(s) == << "\"" >> \o JsonEscape(s) \o << "\"" >>

\* trim(..., '"'): every double quote at the start and at the end is removed.
RECURSIVE TrimQuotes(_)
TrimQuotes(s) ==
  IF s # << >> /\ Head(s) = "\"" THEN TrimQuotes(Tail(s))
  ELSE IF s # << >> /\ s[Len(s)] = "\"" THEN TrimQuotes(SubSeq(s, 1, Len(s) - 1))
  ELSE s

\* process_event_tags, the INSERT/UPDATE branch: the entries derived from
\* NEW.event_tags, tag_name and tag_value as the function computes them.
DerivedTags(id) ==
  { [id |-> id, name |-> TrimQuotes(JsonText(t[1])),
     value |-> TrimQuotes(JsonText(t[2]))] :
      t \in { u \in EventTagsOf(id) :
                /\ Len(TrimQuotes(JsonText(u[1]))) = 1
                /\ TrimQuotes(JsonText(u[2])) # << >> } }

\* How many times the entries of an event have been written to event_tags
\* and are still there.  A row of event_tags has a column id of its own, so
\* equal entries are rows apart: n tells them apart.
TagGen(idx, id) == Cardinality({ e.n : e \in { x \in idx : x.id = id } })

\* process_event_tags fired for a set of rows inserted into events_hot.
\* OLD is null on INSERT, so the leading DELETE removes nothing and the
\* entries are added to those the table holds.  Copies beyond MaxTagGen are
\* not told apart from the MaxTagGen-th.
TagsAfterInsert(idx, S) ==
  idx \cup UNION { { [id |-> e.id, name |-> e.name, value |-> e.value,
                      n |-> IF TagGen(idx, r.id) < MaxTagGen
                            THEN TagGen(idx, r.id) + 1 ELSE MaxTagGen] :
                       e \in DerivedTags(r.id) } : r \in S }

\* process_event_tags fired for a set of rows deleted from events_hot:
\* DELETE FROM event_tags WHERE event_id = OLD.event_id, nothing re-added.
TagsAfterDelete(idx, S) == { e \in idx : e.id \notin IdsOf(S) }

\* ---------------------------------------------------------------------- \*
\* State                                                                   \*
\* ---------------------------------------------------------------------- \*
VARIABLES
  allowedKeys,   \* yggdrasil.conf .AllowedPublicKeys, a JSON array
  nodesJson,     \* nodes.json: node name -> recorded key, NoKey if absent
  daemonKeys,    \* allow-list the running daemon loaded at its last restart
  fserver,       \* foreign server + user mapping storage_<name>: address
  ftable,        \* foreign table events_archive_<name> exists
  attached,      \* range of the attached partition events_archive_<name>
  hotRange,      \* range of the partition events_hot
  hot,           \* rows of events_hot
  store,         \* rows of events_data on each storage node
  tagIndex,      \* rows of event_tags
  flat,          \* rows of the flat table events before the migration
  report,        \* what the last operation did and told the operator
  pc,            \* position of the archive-events.sh process
  job,           \* shell variables of the archive-events.sh process
  hot0,          \* history: rows of hot below the cutoff at the first start
  tag0,          \* history: event_tags at the first start
  run0,          \* history: node, cutoff of the first start, and was it killed
  copyFailed,    \* history: a sub-batch copy failed in the current run
  removed,       \* history: rows the current run deleted from hot
  runs,          \* history: number of archive invocations so far
  proc,          \* position and shell variables of each operator's script
  confTmp,       \* the file yggdrasil.conf.tmp, << >> when it does not exist
  nodesTmp       \* the file nodes.json.tmp, << >> when it does not exist

topoVars == << allowedKeys, nodesJson, daemonKeys, fserver, ftable, attached, hotRange >>
dataVars == << hot, store, tagIndex, flat >>
jobVars == << pc, job, hot0, tag0, run0, copyFailed, removed, runs >>
opVars == << proc, confTmp, nodesTmp >>
vars == << allowedKeys, nodesJson, daemonKeys, fserver, ftable, attached,
           hotRange, hot, store, tagIndex, flat, report, pc, job, hot0, tag0, run0,
           copyFailed, removed, runs, proc, confTmp, nodesTmp >>

NoJob ==
  [ node |-> << >>, cutoff |-> 0, bw |-> 0, bs |-> 0, total |-> 0, minTs |-> 0,
    bStart |-> 0, bEnd |-> 0, wCount |-> 0, subOff |-> 0, archived |-> 0,
    deleted |-> 0 ]

\* A REQ filter without "since" or without "until" has no bound on that
\* side.
NoBound == -1
TimeBounds == Keys \cup { NoBound }
HotName == << "events_hot" >>

\* A query's report also holds its filter, the nodes that did not answer
\* while it ran and the partitions it visited; the scripts and the relay's
\* inserts visit none.  An insert's report holds the number of rows the
\* statement added (its command tag INSERT 0 n).
Report(op, exit, ok, msg, warn) ==
  [ op |-> op, exit |-> exit, attachOk |-> ok, msg |-> msg, warn |-> warn,
    since |-> NoBound, until |-> NoBound, hung |-> {}, visited |-> {},
    rows |-> 0 ]

\* The partitions attached to the table events.
AttachedNames == { n \in NodeNames : attached[n] # NoRange }
AllRanges == { hotRange } \cup { attached[n] : n \in AttachedNames }

\* A routing that took the upper bound of a node's range as inclusive.
RouteOf_UpperInclusive(t, hr, att) ==
  IF \E n \in NodeNames : att[n] # NoRange /\ att[n][1] <= t /\ t <= att[n][2]
  THEN [kind |-> "node",
        node |-> CHOOSE n \in NodeNames :
                   att[n] # NoRange /\ att[n][1] <= t /\ t <= att[n][2]]
  ELSE IF InRange(t, hr) THEN [kind |-> "hot", node |-> << >>]
       ELSE [kind |-> "none", node |-> << >>]

\* The partition a row written through the parent table is routed to:
\* events_hot, a node's foreign table, or none (no partition found).
RouteOf(t, hr, att) ==
  IF InRange(t, hr) THEN [kind |-> "hot", node |-> << >>]
  ELSE IF \E n \in NodeNames : InRange(t, att[n])
       THEN [kind |-> "node", node |-> CHOOSE n \in NodeNames : InRange(t, att[n])]
       ELSE [kind |-> "none", node |-> << >>]

\* ---------------------------------------------------------------------- \*
\* State after the partitioning migration and the coordinator's first      \*
\* start: events_hot covers MINVALUE to MAXVALUE, yggdrasil -genconf wrote  \*
\* an empty AllowedPublicKeys, nodes.json is {}.                            \*
\* ---------------------------------------------------------------------- \*
\* The two terminals an operator runs the scripts from.
Procs == { 1, 2 }
NoFile == << >>

\* What a node was before remove-storage-node.sh was started on it
\* (history, kept to compare with what a later add restores).
NoWas ==
  [ name |-> << >>, addr |-> NoAddr, rg |-> NoRange, key |-> NoKey, rows |-> {} ]

NoProc ==
  [ op |-> "none", pc |-> "idle", addr |-> NoAddr, name |-> << >>,
    rg |-> NoRange, key |-> NoKey, stored |-> NoKey, was |-> NoWas ]

InitIdleOps ==
  /\ proc = [p \in Procs |-> NoProc]
  /\ confTmp = NoFile
  /\ nodesTmp = NoFile

InitIdleJob ==
  /\ pc = "idle"
  /\ job = NoJob
  /\ hot0 = {}
  /\ tag0 = {}
  /\ run0 = << >>
  /\ copyFailed = FALSE
  /\ removed = {}
  /\ runs = 0

Init ==
  /\ allowedKeys = << >>
  /\ nodesJson = [n \in JsonKeys |-> NoKey]
  /\ daemonKeys = << >>
  /\ fserver = [n \in NodeNames |-> NoAddr]
  /\ ftable = [n \in NodeNames |-> FALSE]
  /\ attached = [n \in NodeNames |-> NoRange]
  /\ hotRange = << MINVALUE, MAXVALUE >>
  /\ hot = {}
  /\ store = [n \in NodeNames |-> {}]
  /\ tagIndex = {}
  /\ flat = {}
  /\ report = Report("start", 0, TRUE, "started", FALSE)
  /\ InitIdleJob
  /\ InitIdleOps

\* ---------------------------------------------------------------------- \*
\* add-storage-node.sh                                                     \*
\* ---------------------------------------------------------------------- \*

\* A duplicate check that never finds the key.
KeyListed_Never(keys, k) == FALSE

\* jq '.AllowedPublicKeys | index($k)' is not null
KeyListed(keys, k) == \E i \in 1 .. Len(keys) : keys[i] = k

\* A bug that would let the engine attach any non-empty range.
AttachOK_AnyRange(name, rg, att, hr) ==
  /\ att[name] = NoRange
  /\ rg[1] < rg[2]

\* A coordinator that also refused an attach leaving the ranges
\* non-contiguous.
AttachOK_NoGap(name, rg, att, hr) ==
  /\ att[name] = NoRange
  /\ rg[1] < rg[2]
  /\ ~ Overlaps(rg, hr)
  /\ \A m \in NodeNames : ~ Overlaps(rg, att[m])
  /\ rg[2] = hr[1] \/ \E m \in NodeNames : att[m] # NoRange /\ att[m][1] = rg[2]

\* ALTER TABLE events ATTACH PARTITION events_archive_<name>
\*   FOR VALUES FROM (from) TO (to)
\* is refused when the table is already a partition, when the range is
\* empty, or when it overlaps events_hot or another attached partition.
AttachOK(name, rg, att, hr) ==
  /\ att[name] = NoRange
  /\ rg[1] < rg[2]
  /\ ~ Overlaps(rg, hr)
  /\ \A m \in NodeNames : ~ Overlaps(rg, att[m])

AddNode(addr, name, from, to, key) ==
  LET rg == << from, to >> IN
  IF ~ ValidName(name)
  THEN /\ report' = Report("add", 1, FALSE, "invalid-name", FALSE)
       /\ UNCHANGED << opVars, topoVars, dataVars, jobVars >>
  ELSE
    LET newKey == key # NoKey /\ ~ KeyListed(allowedKeys, key)
        \* a name that is not one identifier makes every statement a
        \* syntax error
        sql == IsIdent(name)
        ok == sql /\ AttachOK(name, rg, attached, hotRange)
    IN
    \* 1. whitelist update: skipped as a whole when the key is listed
    /\ allowedKeys' = IF newKey THEN Append(allowedKeys, key) ELSE allowedKeys
    /\ nodesJson' = IF newKey THEN [nodesJson EXCEPT ![name] = key] ELSE nodesJson
    /\ daemonKeys' = IF newKey THEN Append(allowedKeys, key) ELSE daemonKeys
    \* 2. psql: every statement runs, a failed one does not stop the rest
    /\ fserver' = IF sql /\ fserver[name] = NoAddr
                  THEN [fserver EXCEPT ![name] = addr] ELSE fserver
    /\ ftable' = IF sql THEN [ftable EXCEPT ![name] = TRUE] ELSE ftable
    /\ attached' = IF ok THEN [attached EXCEPT ![name] = rg] ELSE attached
    /\ report' = Report("add", 0, ok, "attached-done", key = NoKey)
    /\ UNCHANGED << opVars, hotRange, dataVars, jobVars >>

\* ---------------------------------------------------------------------- \*
\* remove-storage-node.sh                                                  \*
\* ---------------------------------------------------------------------- \*

\* A removal that also emptied the node's events_data.
RowsAfterDrop_Emptied(rows) == {}

\* DROP FOREIGN TABLE events_archive_<name> drops the coordinator's
\* definition of the table; events_data on the storage node keeps its rows.
RowsAfterDrop(rows) == rows

\* A removal that never warns about an empty whitelist.
OpenWarning_Never(remaining) == FALSE

\* if [ "$REMAINING" -eq 0 ]: WARNING: Whitelist is now empty
OpenWarning(remaining) == remaining = 0

\* A removal whose DETACH PARTITION had no effect.
DetachPartition_Kept(att, name) == att

\* ALTER TABLE events DETACH PARTITION events_archive_<name> CONCURRENTLY
DetachPartition(att, name) == [att EXCEPT ![name] = NoRange]

\* jq '.AllowedPublicKeys -= [$k]': every occurrence of k is removed
RECURSIVE RemoveKey(_, _)
RemoveKey(keys, k) ==
  IF keys = << >> THEN << >>
  ELSE IF Head(keys) = k THEN RemoveKey(Tail(keys), k)
       ELSE << Head(keys) >> \o RemoveKey(Tail(keys), k)

RemoveNode(name) ==
  IF ~ ValidName(name)
  THEN /\ report' = Report("remove", 1, FALSE, "invalid-name", FALSE)
       /\ UNCHANGED << opVars, topoVars, dataVars, jobVars >>
  ELSE
    LET stored == nodesJson[name]
        left == RemoveKey(allowedKeys, stored)
        sql == IsIdent(name)
    IN
    \* 1. whitelist removal when a key is recorded for the name
    /\ allowedKeys' = IF stored # NoKey THEN left ELSE allowedKeys
    /\ nodesJson' = IF stored # NoKey THEN [nodesJson EXCEPT ![name] = NoKey]
                    ELSE nodesJson
    /\ daemonKeys' = IF stored # NoKey THEN left ELSE daemonKeys
    \* 2. DETACH PARTITION, DROP FOREIGN TABLE / USER MAPPING / SERVER
    /\ attached' = IF sql THEN DetachPartition(attached, name) ELSE attached
    /\ ftable' = IF sql THEN [ftable EXCEPT ![name] = FALSE] ELSE ftable
    /\ fserver' = IF sql THEN [fserver EXCEPT ![name] = NoAddr] ELSE fserver
    /\ store' = IF sql THEN [store EXCEPT ![name] = RowsAfterDrop(@)] ELSE store
    /\ report' = Report("remove", 0, sql /\ attached[name] # NoRange,
                        "detached", stored # NoKey /\ OpenWarning(Len(left)))
    /\ UNCHANGED << opVars, hotRange, hot, tagIndex, flat, jobVars >>

\* ---------------------------------------------------------------------- \*
\* Narrowing events_hot (DISTRIBUTED-STORAGE.md), one transaction           \*
\* ---------------------------------------------------------------------- \*
\* A step 5 that left out the rows at the new lower bound.
NarrowHigh_Above(T, b) == { r \in T : r.ts > b }

\* 5. SELECT * FROM events_hot_old WHERE event_created_at >= b
NarrowHigh(T, b) == { r \in T : r.ts >= b }

NarrowHot(b) ==
  LET newHr == << b, MAXVALUE >>
      low == { r \in hot : r.ts < b }
      high == NarrowHigh(hot, b)
      \* 3. CREATE TABLE events_hot PARTITION OF events FOR VALUES FROM (b)
      createOk == b < MAXVALUE /\ \A m \in NodeNames : ~ Overlaps(newHr, attached[m])
      \* 4. INSERT INTO events ... WHERE event_created_at < b: every row
      \*    needs a partition to be routed to
      routed == \A r \in low : RouteOf(r.ts, newHr, attached).kind = "node"
  IN
  IF createOk /\ routed
  THEN /\ hotRange' = newHr
       /\ store' = [n \in NodeNames |->
            InsertSkipDup(store[n],
              { r \in low : RouteOf(r.ts, newHr, attached).node = n })]
       \* 5. rows at or above b go into the new events_hot, the trigger fires
       /\ hot' = high
       /\ tagIndex' = TagsAfterInsert(tagIndex, high)
       /\ report' = Report("narrow", 0, TRUE, "committed", FALSE)
       /\ UNCHANGED << opVars, allowedKeys, nodesJson, daemonKeys, fserver,
                       ftable, attached, flat, jobVars >>
  ELSE /\ report' = Report("narrow", 1, FALSE, "rolled-back", FALSE)
       /\ UNCHANGED << opVars, topoVars, dataVars, jobVars >>

\* ---------------------------------------------------------------------- \*
\* The relay writes an event through the parent table events               \*
\* ---------------------------------------------------------------------- \*
RelayInsert(r) ==
  LET rt == RouteOf(r.ts, hotRange, attached) IN
  /\ hot' = IF rt.kind = "hot" THEN InsertSkipDup(hot, {r}) ELSE hot
  /\ tagIndex' = IF rt.kind = "hot" /\ r.id \notin IdsOf(hot)
                 THEN TagsAfterInsert(tagIndex, {r}) ELSE tagIndex
  /\ store' = IF rt.kind = "node"
              THEN [store EXCEPT ![rt.node] = InsertSkipDup(@, {r})] ELSE store
  /\ report' = [ Report("insert", IF rt.kind = "none" THEN 1 ELSE 0,
                        TRUE, rt.kind, FALSE)
                 EXCEPT !.rows = Cardinality(hot') - Cardinality(hot)
                                 + IF rt.kind = "node"
                                   THEN Cardinality(store'[rt.node])
                                        - Cardinality(store[rt.node])
                                   ELSE 0 ]
  /\ UNCHANGED << opVars, topoVars, flat, jobVars >>

\* add-storage-node.sh called with a key of K or without --pubkey
AddNodeWith(K) ==
  \E addr \in Addrs, name \in NameInputs, from \in Keys, to \in BoundVals,
     key \in K \cup {NoKey} : from < to /\ AddNode(addr, name, from, to, key)
DoAddNode == AddNodeWith({"k1"})
DoRemoveNode == \E name \in NameInputs : RemoveNode(name)
DoNarrowHot == \E b \in Keys : NarrowHot(b)
DoRelayInsert == \E r \in { x \in Rows : x.id <= MaxTopoEv } : RelayInsert(r)
\* The relay writes an event whose created_at is in the range of events_hot.
DoRelayInsertHot == \E r \in Rows : InRange(r.ts, hotRange) /\ RelayInsert(r)

NextTopo == DoAddNode \/ DoRemoveNode \/ DoNarrowHot \/ DoRelayInsert
SpecTopo == Init /\ [][NextTopo]_vars

\* The session that runs the narrowing ends before COMMIT (killed, or the
\* connection lost, at any statement): the transaction is rolled back.
NarrowKill(b) ==
  /\ report' = Report("narrow", 130, FALSE, "interrupted", FALSE)
  /\ UNCHANGED << opVars, topoVars, dataVars, jobVars >>

DoNarrowKill == \E b \in Keys : NarrowKill(b)

\* ---------------------------------------------------------------------- \*
\* The partitioning migration (exports.up), one transaction                \*
\* ---------------------------------------------------------------------- \*
\* The database before the migration: events is a flat table, no partition
\* exists, and event_tags holds the entries the trigger insert_event_tags
\* wrote when the rows were inserted.
InitFlat ==
  /\ allowedKeys = << >>
  /\ nodesJson = [n \in JsonKeys |-> NoKey]
  /\ daemonKeys = << >>
  /\ fserver = [n \in NodeNames |-> NoAddr]
  /\ ftable = [n \in NodeNames |-> FALSE]
  /\ attached = [n \in NodeNames |-> NoRange]
  /\ hotRange = NoRange
  /\ hot = {}
  /\ store = [n \in NodeNames |-> {}]
  /\ flat \in SUBSET Rows
  /\ tagIndex = TagsAfterInsert({}, flat)
  /\ report = Report("start", 0, TRUE, "started", FALSE)
  /\ InitIdleJob
  /\ InitIdleOps

\* exports.up.  With every statement succeeding: events is renamed to
\* events_old, the partitioned events and events_hot FROM (MINVALUE) TO
\* (MAXVALUE) are created, the trigger insert_event_tags is created on
\* events, the rows of events_old are inserted into events (routed to
\* events_hot, the trigger firing for each), events_old is dropped, COMMIT.
\* When a statement raises, the catch block runs ROLLBACK.
Migrate(ok) ==
  /\ hotRange = NoRange
  /\ IF ok
     THEN /\ hotRange' = << MINVALUE, MAXVALUE >>
          /\ hot' = InsertSkipDup({}, flat)
          /\ tagIndex' = TagsAfterInsert(tagIndex, InsertSkipDup({}, flat))
          /\ flat' = {}
          /\ report' = Report("migrate", 0, TRUE, "committed", FALSE)
          /\ UNCHANGED << opVars, allowedKeys, nodesJson, daemonKeys, fserver,
                          ftable, attached, store, jobVars >>
     ELSE /\ report' = Report("migrate", 1, FALSE, "rolled-back", FALSE)
          /\ UNCHANGED << opVars, topoVars, dataVars, jobVars >>

DoMigrate == \E ok \in BOOLEAN : Migrate(ok)

\* The migration, and the relay writing events once events is partitioned.
NextMig == DoMigrate \/ DoRelayInsertHot
SpecMig == InitFlat /\ [][NextMig]_vars

\* ---------------------------------------------------------------------- \*
\* archive-events.sh                                                       \*
\* ---------------------------------------------------------------------- \*
\* A window end that is not clipped to the cutoff.
Min_NoClip(a, b) == a

\* BATCH_END=$(( BATCH_START + BATCH_WINDOW )), set to CUTOFF when greater
Min(a, b) == IF a < b THEN a ELSE b

\* A window that left out the rows at its lower bound.
WindowRows_OpenLow(T, lo, hi) == { r \in T : r.ts > lo /\ r.ts < hi }

\* WHERE event_created_at >= lo AND event_created_at < hi on events_hot
WindowRows(T, lo, hi) == { r \in T : r.ts >= lo /\ r.ts < hi }

\* ORDER BY event_created_at: every order of the rows that is ascending in
\* created_at; rows with equal created_at come in an order the engine is
\* free to choose anew for each statement.
OrdersByTs(W) ==
  { s \in [1 .. Cardinality(W) -> W] :
      /\ \A i, j \in 1 .. Cardinality(W) : i # j => s[i] # s[j]
      /\ \A i, j \in 1 .. Cardinality(W) : i < j => s[i].ts <= s[j].ts }

\* LIMIT size OFFSET off
LimitOffset(s, size, off) ==
  { s[i] : i \in { j \in 1 .. Len(s) : off < j /\ j <= off + size } }

\* A plan that went on to the loop in spite of --dry-run.
PlanOutcome_NoDryRun(total, dry, confirm) ==
  IF total = 0 THEN "nothing-to-do"
  ELSE IF ~ confirm THEN "aborted" ELSE "running"

\* Where the script ends before its loop: TOTAL -eq 0, DRY_RUN = true, or
\* an answer to "Proceed? [y/N]" other than y.
PlanOutcome(total, dry, confirm) ==
  IF total = 0 THEN "nothing-to-do"
  ELSE IF dry THEN "dry-run"
  ELSE IF ~ confirm THEN "aborted" ELSE "running"

\* Argument checks, partition check, count, dry run, confirmation.
ArchiveStart(node, cutoff, bw, bs, dry, confirm) ==
  /\ pc = "idle"
  /\ runs < MaxRuns
  /\ UNCHANGED << opVars, topoVars, dataVars >>
  /\ IF ~ ValidName(node)
     THEN /\ report' = Report("archive", 1, FALSE, "invalid-name", FALSE)
          /\ UNCHANGED jobVars
     ELSE IF ~ IsIdent(node) \/ attached[node] = NoRange
     THEN /\ report' = Report("archive", 1, FALSE, "partition-not-found", FALSE)
          /\ UNCHANGED jobVars
     ELSE
       LET below == { r \in hot : r.ts < cutoff }
           total == Cardinality(below)
       IN
       IF PlanOutcome(total, dry, confirm) # "running"
       THEN /\ report' = Report("archive", 0, TRUE,
                                PlanOutcome(total, dry, confirm), FALSE)
            /\ UNCHANGED jobVars
       ELSE
         LET minTs == CHOOSE t \in Keys :
                        /\ \E r \in below : r.ts = t
                        /\ \A r \in below : t <= r.ts
         IN
         /\ pc' = "window"
         /\ job' = [ node |-> node, cutoff |-> cutoff, bw |-> bw, bs |-> bs,
                     total |-> total, minTs |-> minTs, bStart |-> minTs,
                     bEnd |-> 0, wCount |-> 0, subOff |-> 0, archived |-> 0,
                     deleted |-> 0 ]
         /\ report' = Report("archive", 0, TRUE, "running", FALSE)
         /\ runs' = runs + 1
         /\ hot0' = IF runs = 0 THEN below ELSE hot0
         /\ tag0' = IF runs = 0 THEN tagIndex ELSE tag0
         /\ run0' = IF runs = 0 THEN << node, cutoff, FALSE >> ELSE run0
         /\ copyFailed' = FALSE
         /\ removed' = {}

\* Head of the window loop: compute the window and count its rows; an
\* empty window is skipped.
ArchiveWindow ==
  /\ pc = "window"
  /\ job.bStart < job.cutoff
  /\ LET bEnd == Min(job.bStart + job.bw, job.cutoff)
         wCount == Cardinality(WindowRows(hot, job.bStart, bEnd))
     IN
     IF wCount = 0
     THEN /\ job' = [job EXCEPT !.bEnd = bEnd, !.wCount = 0, !.bStart = bEnd]
          /\ pc' = "window"
     ELSE /\ job' = [job EXCEPT !.bEnd = bEnd, !.wCount = wCount, !.subOff = 0]
          /\ pc' = "copy"
  /\ report' = Report("archive", 0, TRUE, "running", FALSE)
  /\ UNCHANGED << opVars, topoVars, dataVars, hot0, tag0, run0, copyFailed, removed, runs >>

\* One pass of the sub-batch loop.  The INSERT goes straight into the
\* node's foreign table; when psql fails, "|| echo 0" lets the script go
\* on, and the counters advance by BATCH_SIZE either way.
ArchiveCopyTo(rows, batch, ok) == IF ok THEN InsertSkipDup(rows, batch) ELSE rows

ArchiveCopy(ok) ==
  /\ pc = "copy"
  /\ job.subOff < job.wCount
  /\ \E s \in OrdersByTs(WindowRows(hot, job.bStart, job.bEnd)) :
       store' = [store EXCEPT ![job.node] =
                   ArchiveCopyTo(@, LimitOffset(s, job.bs, job.subOff), ok)]
  /\ job' = [job EXCEPT !.archived = @ + job.bs, !.subOff = @ + job.bs]
  /\ pc' = IF job.subOff + job.bs < job.wCount THEN "copy" ELSE "delete"
  /\ copyFailed' = (copyFailed \/ ~ ok)
  /\ report' = Report("archive", 0, TRUE, "running", FALSE)
  /\ UNCHANGED << opVars, topoVars, hot, tagIndex, flat, hot0, tag0, run0,
                  removed, runs >>

\* DELETE FROM events_hot over the window; the row trigger on events
\* fires for every deleted row.
ArchiveDelete ==
  /\ pc = "delete"
  /\ LET del == WindowRows(hot, job.bStart, job.bEnd) IN
     /\ hot' = hot \ del
     /\ tagIndex' = TagsAfterDelete(tagIndex, del)
     /\ removed' = removed \cup del
     /\ job' = [job EXCEPT !.deleted = @ + Cardinality(del), !.bStart = job.bEnd]
  /\ pc' = "window"
  /\ report' = Report("archive", 0, TRUE, "running", FALSE)
  /\ UNCHANGED << opVars, topoVars, store, flat, hot0, tag0, run0, copyFailed,
                  runs >>

\* The loop condition fails: closing report, warning when the counts differ.
ArchiveDone ==
  /\ pc = "window"
  /\ ~ (job.bStart < job.cutoff)
  /\ pc' = "idle"
  /\ report' = Report("archive", 0, TRUE, "done", job.archived # job.deleted)
  /\ UNCHANGED << opVars, topoVars, dataVars, job, hot0, tag0, run0, copyFailed, removed, runs >>

\* The process is killed between two commands.
ArchiveKill ==
  /\ pc \in { "window", "copy", "delete" }
  /\ pc' = "idle"
  /\ job' = NoJob
  /\ report' = Report("archive", 130, TRUE, "killed", FALSE)
  /\ run0' = IF runs = 1 THEN << run0[1], run0[2], TRUE >> ELSE run0
  /\ UNCHANGED << opVars, topoVars, dataVars, hot0, tag0, copyFailed, removed, runs >>

DoArchiveStart ==
  \E node \in NameInputs, cutoff \in 1 .. MAXVALUE, bw \in 1 .. MaxWin,
     bs \in 1 .. MaxBatch, dry \in BOOLEAN, confirm \in BOOLEAN :
       ArchiveStart(node, cutoff, bw, bs, dry, confirm)
DoArchiveCopy == ArchiveCopy(TRUE)
DoArchiveCopyFail == ArchiveCopy(FALSE)

\* ---------------------------------------------------------------------- \*
\* States the coordinator is in when an archive job is started: events_hot \*
\* narrowed to [b, MAXVALUE), nodes attached below b, rows where the        \*
\* routing put them, event_tags written by the trigger for the hot rows.    \*
\* ---------------------------------------------------------------------- \*
RangesBelow(b) == { << f, t >> : f \in MINVALUE .. b, t \in MINVALUE .. b }

InitArchive ==
  /\ allowedKeys = << >>
  /\ nodesJson = [n \in JsonKeys |-> NoKey]
  /\ daemonKeys = << >>
  /\ \E b \in Keys \ {MINVALUE} :
       /\ hotRange = << b, MAXVALUE >>
       /\ attached \in [NodeNames -> {NoRange} \cup { rg \in RangesBelow(b) : rg[1] < rg[2] }]
       /\ AttachedNames # {}
       /\ \A n, m \in NodeNames : n # m => ~ Overlaps(attached[n], attached[m])
       /\ hot \in SUBSET { r \in Rows : InRange(r.ts, hotRange) }
  /\ fserver = [n \in NodeNames |-> IF attached[n] # NoRange THEN "200::1" ELSE NoAddr]
  /\ ftable = [n \in NodeNames |-> attached[n] # NoRange]
  /\ store = [n \in NodeNames |-> {}]
  /\ tagIndex = TagsAfterInsert({}, hot)
  /\ flat = {}
  /\ report = Report("start", 0, TRUE, "started", FALSE)
  /\ InitIdleJob
  /\ InitIdleOps

NextArchive ==
  \/ DoArchiveStart
  \/ ArchiveWindow
  \/ DoArchiveCopy
  \/ DoArchiveCopyFail
  \/ ArchiveDelete
  \/ ArchiveDone
  \/ ArchiveKill
SpecArchive == InitArchive /\ [][NextArchive]_vars

\* The job with a storage node that answers every statement: the only
\* disturbance is the kill.
NextCrash ==
  \/ DoArchiveStart
  \/ ArchiveWindow
  \/ DoArchiveCopy
  \/ ArchiveDelete
  \/ ArchiveDone
  \/ ArchiveKill
SpecCrash == InitArchive /\ [][NextCrash]_vars

\* The job left to itself: the storage node answers every statement and
\* nothing else writes.
NextQuiet ==
  \/ DoArchiveStart
  \/ ArchiveWindow
  \/ DoArchiveCopy
  \/ ArchiveDelete
  \/ ArchiveDone
SpecQuiet == InitArchive /\ [][NextQuiet]_vars

\* archive-events.sh up to the start of its loop: argument checks, plan,
\* dry run and confirmation.
NextPlan == DoArchiveStart
SpecPlan == InitArchive /\ [][NextPlan]_vars

\* --batch-window and --batch-size are taken as given: no check rejects 0.
\* Each command of the loop returns, so the script goes on to its next
\* command whenever it has one.
DoArchiveStartAny ==
  \E node \in NodeNames, cutoff \in 1 .. MAXVALUE, bw \in 0 .. MaxWin,
     bs \in 0 .. MaxBatch, dry \in BOOLEAN, confirm \in BOOLEAN :
       ArchiveStart(node, cutoff, bw, bs, dry, confirm)
NextLive ==
  \/ DoArchiveStartAny
  \/ ArchiveWindow
  \/ DoArchiveCopy
  \/ ArchiveDelete
  \/ ArchiveDone
SpecLive ==
  /\ InitArchive
  /\ [][NextLive]_vars
  /\ WF_vars(ArchiveWindow)
  /\ WF_vars(DoArchiveCopy)
  /\ WF_vars(ArchiveDelete)
  /\ WF_vars(ArchiveDone)

\* The same job with a reachable storage node and the relay writing events
\* that land in events_hot.
NextConc ==
  \/ DoArchiveStart
  \/ ArchiveWindow
  \/ DoArchiveCopy
  \/ ArchiveDelete
  \/ ArchiveDone
  \/ DoRelayInsertHot
SpecConc == InitArchive /\ [][NextConc]_vars

\* The three scripts called with a node name that is not one identifier:
\* a character outside letters, digits and underscore, or no character.
BadNames == { n \in NameArgs : ~ IsIdent(n) }
AddNamed(name) ==
  \E addr \in Addrs, from \in Keys, to \in BoundVals, key \in PubKeys \cup {NoKey} :
    from < to /\ AddNode(addr, name, from, to, key)
ArchiveNamed(name) ==
  \E cutoff \in 1 .. MAXVALUE, bw \in 1 .. MaxWin, bs \in 1 .. MaxBatch,
     dry \in BOOLEAN, confirm \in BOOLEAN :
       ArchiveStart(name, cutoff, bw, bs, dry, confirm)
DoAddBadName == \E name \in BadNames : AddNamed(name)
DoRemoveBadName == \E name \in BadNames : RemoveNode(name)
DoArchiveBadName == \E name \in BadNames : ArchiveNamed(name)

NextNames == DoAddBadName \/ DoRemoveBadName \/ DoArchiveBadName
SpecNames == InitArchive /\ [][NextNames]_vars

\* ---------------------------------------------------------------------- \*
\* add-storage-node.sh and remove-storage-node.sh command by command: what \*
\* holds between two commands of a script, and two invocations running     \*
\* side by side.  Both scripts write yggdrasil.conf.tmp and nodes.json.tmp  \*
\* next to the files and rename them; set -e ends a script whose mv fails.  \*
\* ---------------------------------------------------------------------- \*
Finished(p) == proc[p].pc \in { "idle", "done", "failed", "killed" }

At(p, op, pos) == proc[p].op = op /\ proc[p].pc = pos

\* The script of terminal p is at its next command.
Goto(p, pos) == proc' = [proc EXCEPT ![p].pc = pos]

\* mv "${YGG_CONFIG}.tmp" "$YGG_CONFIG"
MvConf(p, pos) ==
  IF confTmp = NoFile
  THEN /\ Goto(p, "failed")
       /\ report' = Report(proc[p].op, 1, FALSE, "mv-failed", FALSE)
       /\ UNCHANGED << confTmp, nodesTmp, topoVars, dataVars, jobVars >>
  ELSE /\ allowedKeys' = confTmp[1]
       /\ confTmp' = NoFile
       /\ Goto(p, pos)
       /\ UNCHANGED << nodesTmp, nodesJson, daemonKeys, fserver, ftable,
                       attached, hotRange, dataVars, jobVars, report >>

\* mv "${YGG_NODES}.tmp" "$YGG_NODES"
MvNodes(p, pos) ==
  IF nodesTmp = NoFile
  THEN /\ Goto(p, "failed")
       /\ report' = Report(proc[p].op, 1, FALSE, "mv-failed", FALSE)
       /\ UNCHANGED << confTmp, nodesTmp, topoVars, dataVars, jobVars >>
  ELSE /\ nodesJson' = nodesTmp[1]
       /\ nodesTmp' = NoFile
       /\ Goto(p, pos)
       /\ UNCHANGED << confTmp, allowedKeys, daemonKeys, fserver, ftable,
                       attached, hotRange, dataVars, jobVars, report >>

\* Argument parsing and the name check of add-storage-node.sh; without
\* --pubkey the script goes straight to psql.
AddBegin(p, addr, name, from, to, key) ==
  /\ Finished(p)
  /\ proc' = [proc EXCEPT ![p] =
       [ op |-> "add",
         pc |-> IF ~ ValidName(name) THEN "failed"
                ELSE IF key = NoKey THEN "psql" ELSE "check",
         addr |-> addr, name |-> name, rg |-> << from, to >>, key |-> key,
         stored |-> NoKey,
         was |-> IF At(p, "remove", "done") THEN proc[p].was ELSE NoWas ]]
  /\ report' = IF ~ ValidName(name)
               THEN Report("add", 1, FALSE, "invalid-name", FALSE) ELSE report
  /\ UNCHANGED << confTmp, nodesTmp, topoVars, dataVars, jobVars >>

\* EXISTING=$(jq '.AllowedPublicKeys | index($k)'): a listed key skips the
\* whole whitelist update.
AddCheck(p) ==
  /\ At(p, "add", "check")
  /\ Goto(p, IF KeyListed(allowedKeys, proc[p].key) THEN "psql" ELSE "conf-tmp")
  /\ UNCHANGED << confTmp, nodesTmp, topoVars, dataVars, jobVars, report >>

\* jq '.AllowedPublicKeys += [$k]' "$YGG_CONFIG" > "${YGG_CONFIG}.tmp"
AddConfTmp(p) ==
  /\ At(p, "add", "conf-tmp")
  /\ confTmp' = << Append(allowedKeys, proc[p].key) >>
  /\ Goto(p, "conf-mv")
  /\ UNCHANGED << nodesTmp, topoVars, dataVars, jobVars, report >>

AddConfMv(p) == At(p, "add", "conf-mv") /\ MvConf(p, "nodes-tmp")

\* jq '.[$name] = $key' "$YGG_NODES" > "${YGG_NODES}.tmp"
AddNodesTmp(p) ==
  /\ At(p, "add", "nodes-tmp")
  /\ nodesTmp' = << [nodesJson EXCEPT ![proc[p].name] = proc[p].key] >>
  /\ Goto(p, "nodes-mv")
  /\ UNCHANGED << confTmp, topoVars, dataVars, jobVars, report >>

AddNodesMv(p) == At(p, "add", "nodes-mv") /\ MvNodes(p, "restart")

\* docker restart "$YGG_CONTAINER": the daemon loads the file as it is now
AddRestart(p) ==
  /\ At(p, "add", "restart")
  /\ daemonKeys' = allowedKeys
  /\ Goto(p, "psql")
  /\ UNCHANGED << confTmp, nodesTmp, allowedKeys, nodesJson, fserver, ftable,
                  attached, hotRange, dataVars, jobVars, report >>

\* psql <<SQL ... SQL and the closing echo
AddPsql(p) ==
  LET name == proc[p].name
      sql == IsIdent(name)
      ok == sql /\ AttachOK(name, proc[p].rg, attached, hotRange)
  IN
  /\ At(p, "add", "psql")
  /\ fserver' = IF sql /\ fserver[name] = NoAddr
                THEN [fserver EXCEPT ![name] = proc[p].addr] ELSE fserver
  /\ ftable' = IF sql THEN [ftable EXCEPT ![name] = TRUE] ELSE ftable
  /\ attached' = IF ok THEN [attached EXCEPT ![name] = proc[p].rg] ELSE attached
  /\ report' = Report("add", 0, ok, "attached-done", proc[p].key = NoKey)
  /\ Goto(p, "done")
  /\ UNCHANGED << confTmp, nodesTmp, allowedKeys, nodesJson, daemonKeys,
                  hotRange, dataVars, jobVars >>

\* add-storage-node.sh is killed between two of its commands: what the
\* commands before have written stays, the files *.tmp included.  The
\* report names the command the script was about to run.
AddKill(p) ==
  /\ proc[p].op = "add"
  /\ ~ Finished(p)
  /\ Goto(p, "killed")
  /\ report' = Report("add", 130, FALSE, proc[p].pc, FALSE)
  /\ UNCHANGED << confTmp, nodesTmp, topoVars, dataVars, jobVars >>

\* The name check of remove-storage-node.sh.
RemoveBegin(p, name) ==
  /\ Finished(p)
  /\ proc' = [proc EXCEPT ![p] =
       [ op |-> "remove",
         pc |-> IF ~ ValidName(name) THEN "failed" ELSE "read-key",
         addr |-> NoAddr, name |-> name, rg |-> NoRange, key |-> NoKey,
         stored |-> NoKey,
         was |-> IF ~ IsIdent(name) THEN NoWas
                 ELSE [ name |-> name, addr |-> fserver[name],
                        rg |-> attached[name], key |-> nodesJson[name],
                        rows |-> store[name] ] ]]
  /\ report' = IF ~ ValidName(name)
               THEN Report("remove", 1, FALSE, "invalid-name", FALSE) ELSE report
  /\ UNCHANGED << confTmp, nodesTmp, topoVars, dataVars, jobVars >>

\* STORED_KEY=$(jq -r '.[$name] // empty' "$YGG_NODES")
RemoveReadKey(p) ==
  /\ At(p, "remove", "read-key")
  /\ proc' = [proc EXCEPT
       ![p].stored = nodesJson[proc[p].name],
       ![p].pc = IF nodesJson[proc[p].name] = NoKey THEN "psql" ELSE "conf-tmp"]
  /\ UNCHANGED << confTmp, nodesTmp, topoVars, dataVars, jobVars, report >>

\* jq '.AllowedPublicKeys -= [$k]' "$YGG_CONFIG" > "${YGG_CONFIG}.tmp"
RemoveConfTmp(p) ==
  /\ At(p, "remove", "conf-tmp")
  /\ confTmp' = << RemoveKey(allowedKeys, proc[p].stored) >>
  /\ Goto(p, "conf-mv")
  /\ UNCHANGED << nodesTmp, topoVars, dataVars, jobVars, report >>

RemoveConfMv(p) == At(p, "remove", "conf-mv") /\ MvConf(p, "nodes-tmp")

\* jq 'del(.[$name])' "$YGG_NODES" > "${YGG_NODES}.tmp"
RemoveNodesTmp(p) ==
  /\ At(p, "remove", "nodes-tmp")
  /\ nodesTmp' = << [nodesJson EXCEPT ![proc[p].name] = NoKey] >>
  /\ Goto(p, "nodes-mv")
  /\ UNCHANGED << confTmp, topoVars, dataVars, jobVars, report >>

RemoveNodesMv(p) == At(p, "remove", "nodes-mv") /\ MvNodes(p, "restart")

\* REMAINING=$(jq '.AllowedPublicKeys | length'), docker restart, and the
\* warning when REMAINING is 0
RemoveRestart(p) ==
  /\ At(p, "remove", "restart")
  /\ daemonKeys' = allowedKeys
  /\ report' = Report("remove", 0, TRUE, "reloaded", OpenWarning(Len(allowedKeys)))
  /\ Goto(p, "psql")
  /\ UNCHANGED << confTmp, nodesTmp, allowedKeys, nodesJson, fserver, ftable,
                  attached, hotRange, dataVars, jobVars >>

\* psql <<SQL ... SQL: DETACH PARTITION, DROP FOREIGN TABLE, DROP USER
\* MAPPING, DROP SERVER; the rows on the storage node are not touched.
RemovePsql(p) ==
  LET name == proc[p].name
      sql == IsIdent(name)
  IN
  /\ At(p, "remove", "psql")
  /\ attached' = IF sql THEN DetachPartition(attached, name) ELSE attached
  /\ ftable' = IF sql THEN [ftable EXCEPT ![name] = FALSE] ELSE ftable
  /\ fserver' = IF sql THEN [fserver EXCEPT ![name] = NoAddr] ELSE fserver
  /\ report' = Report("remove", 0, sql /\ attached[name] # NoRange, "detached",
                      report.op = "remove" /\ report.msg = "reloaded" /\ report.warn)
  /\ store' = IF sql THEN [store EXCEPT ![name] = RowsAfterDrop(@)] ELSE store
  /\ Goto(p, "done")
  /\ UNCHANGED << confTmp, nodesTmp, allowedKeys, nodesJson, daemonKeys,
                  hotRange, hot, tagIndex, flat, jobVars >>

\* One command of the script running at terminal p.
AddStep(p) ==
  \/ AddCheck(p)
  \/ AddConfTmp(p)
  \/ AddConfMv(p)
  \/ AddNodesTmp(p)
  \/ AddNodesMv(p)
  \/ AddRestart(p)
  \/ AddPsql(p)
RemoveStep(p) ==
  \/ RemoveReadKey(p)
  \/ RemoveConfTmp(p)
  \/ RemoveConfMv(p)
  \/ RemoveNodesTmp(p)
  \/ RemoveNodesMv(p)
  \/ RemoveRestart(p)
  \/ RemovePsql(p)

\* One operator at one terminal: scripts run one after the other.
OpAddBegin ==
  \E addr \in Addrs, name \in NameInputs, from \in Keys, to \in BoundVals,
     key \in { "k1", NoKey } :
       from < to /\ AddBegin(1, addr, name, from, to, key)
OpAddStep == AddStep(1)
OpRemoveBegin == \E name \in NameInputs : RemoveBegin(1, name)
OpRemoveStep == RemoveStep(1)

\* The coordinator the operator works on: events_hot has been narrowed, no
\* node is attached; node a was attached before and holds the rows that
\* were routed to it then.
InitOps ==
  /\ allowedKeys = << >>
  /\ nodesJson = [n \in JsonKeys |-> NoKey]
  /\ daemonKeys = << >>
  /\ fserver = [n \in NodeNames |-> NoAddr]
  /\ ftable = [n \in NodeNames |-> FALSE]
  /\ attached = [n \in NodeNames |-> NoRange]
  /\ hotRange \in { << b, MAXVALUE >> : b \in Keys \ {MINVALUE} }
  /\ hot = {}
  /\ store = [n \in NodeNames |->
                IF n = << "a" >> THEN { r \in Rows : r.ts < hotRange[1] } ELSE {}]
  /\ tagIndex = {}
  /\ flat = {}
  /\ report = Report("start", 0, TRUE, "started", FALSE)
  /\ InitIdleJob
  /\ InitIdleOps

NextOps ==
  \/ OpAddBegin
  \/ OpAddStep
  \/ OpRemoveBegin
  \/ OpRemoveStep
SpecOps == InitOps /\ [][NextOps]_vars

\* One operator whose add-storage-node.sh may be killed and who then runs
\* it again.
OpAddKill == AddKill(1)
NextRetry == OpAddBegin \/ OpAddStep \/ OpAddKill
SpecRetry == InitOps /\ [][NextRetry]_vars

\* Two terminals, each running add-storage-node.sh once, on a coordinator
\* whose events_hot has been narrowed.
InitTwoOps ==
  /\ allowedKeys = << >>
  /\ nodesJson = [n \in JsonKeys |-> NoKey]
  /\ daemonKeys = << >>
  /\ fserver = [n \in NodeNames |-> NoAddr]
  /\ ftable = [n \in NodeNames |-> FALSE]
  /\ attached = [n \in NodeNames |-> NoRange]
  /\ hotRange \in { << b, MAXVALUE >> : b \in Keys \ {MINVALUE} }
  /\ hot = {}
  /\ store = [n \in NodeNames |-> {}]
  /\ tagIndex = {}
  /\ flat = {}
  /\ report = Report("start", 0, TRUE, "started", FALSE)
  /\ InitIdleJob
  /\ InitIdleOps

TwoAddBegin ==
  \E p \in Procs, addr \in Addrs, name \in NodeNames, from \in Keys,
     to \in BoundVals, key \in PubKeys :
       /\ proc[p].op = "none"
       /\ from < to
       /\ AddBegin(p, addr, name, from, to, key)
TwoAddStep == \E p \in Procs : AddStep(p)

NextTwoOps == TwoAddBegin \/ TwoAddStep
SpecTwoOps == InitTwoOps /\ [][NextTwoOps]_vars

\* One operator running the two scripts to their end, one after the other,
\* with either key or none, on a coordinator whose events_hot has been
\* narrowed.
DoAddKeyed ==
  \E addr \in Addrs, name \in NodeNames, from \in Keys, to \in BoundVals,
     key \in PubKeys \cup {NoKey} :
       from < to /\ AddNode(addr, name, from, to, key)
DoRemoveKeyed == \E name \in NodeNames : RemoveNode(name)

NextKeys == DoAddKeyed \/ DoRemoveKeyed
SpecKeys == InitTwoOps /\ [][NextKeys]_vars

\* ---------------------------------------------------------------------- \*
\* A REQ filter on created_at run through the parent table events          \*
\* ---------------------------------------------------------------------- \*
\* event_created_at >= since AND event_created_at <= until
Admits(since, until, k) ==
  /\ since = NoBound \/ since <= k
  /\ until = NoBound \/ k <= until

\* A filter that prunes nothing: every attached partition is visited.
VisitedParts_All(since, until, hr, att) ==
  { HotName } \cup { n \in NodeNames : att[n] # NoRange }

\* Partition pruning: a partition is left out when no key of its range
\* satisfies the filter.
VisitedParts(since, until, hr, att) ==
  { p \in { HotName } \cup NodeNames :
      \E k \in Keys : /\ Admits(since, until, k)
                      /\ InRange(k, IF p = HotName THEN hr ELSE att[p]) }

\* The statement waits for every partition it visits: when one of them is
\* on a node that does not answer, the statement does not return.
Query(since, until, hung) ==
  LET vis == VisitedParts(since, until, hotRange, attached)
      blocked == vis \cap hung # {}
  IN
  /\ report' = [ Report("query", IF blocked THEN 1 ELSE 0, TRUE,
                        IF blocked THEN "no-answer" ELSE "rows", FALSE)
                 EXCEPT !.since = since, !.until = until, !.hung = hung,
                        !.visited = vis ]
  /\ UNCHANGED << opVars, topoVars, dataVars, jobVars >>

DoQuery ==
  \E since \in TimeBounds, until \in TimeBounds, hung \in SUBSET NodeNames :
    Query(since, until, hung)
\* The relay writes any event.
DoRelayInsertAny == \E r \in Rows : RelayInsert(r)

\* Narrowing on a coordinator with nodes attached and rows in events_hot,
\* interrupted and run again, the relay writing events in between.
NextNarrow == DoNarrowHot \/ DoNarrowKill \/ DoRelayInsertAny
SpecNarrow == InitArchive /\ [][NextNarrow]_vars

\* Inserts on a coordinator with nodes attached.
NextRoute == DoRelayInsertAny
SpecRoute == InitArchive /\ [][NextRoute]_vars

\* Events arriving more than once, each time as a new row: events_hot is
\* empty at first.
InitDup == InitArchive /\ hot = {}
DoRelayInsertRow == \E r \in PhysRows : RelayInsert(r)
NextDup == DoRelayInsertRow
SpecDup == InitDup /\ [][NextDup]_vars

\* Queries on a coordinator with nodes attached.
NextQuery == DoQuery
SpecQuery == InitArchive /\ [][NextQuery]_vars

\* ====================================================================== \*
\* Properties                                                              \*
\* ====================================================================== \*

\* Key k belongs to the range of an attached partition.
Covered(k) == InRange(k, hotRange) \/ \E n \in NodeNames : InRange(k, attached[n])

\* C1: during an archive run without concurrent writers, killed at any
\* point or not, every row that was in events_hot below the cutoff when the
\* run started is in events_hot or in the target node's store, and the
\* window's delete runs only after the sub-batch loop of that window has
\* gone through all its offsets.
C1_CopyBeforeDelete ==
  /\ runs = 1 => \A r \in hot0 : r \in hot \/ r \in store[run0[1]]
  /\ pc = "delete" => job.subOff >= job.wCount

\* C2: once a sub-batch copy of the run has failed, no step of the run
\* removes a row from events_hot.
C2_AbortOnCopyFailure == [][copyFailed => hot \subseteq hot']_vars

\* C3: an archive run is killed, archive is invoked again with the same
\* node and cutoff and finishes: every row that was in events_hot below the
\* cutoff is exactly once in the target node's store and no row below the
\* cutoff is left in events_hot.
C3_ResumeCompletes ==
  ( /\ runs = 2
    /\ pc = "idle"
    /\ report.msg = "done"
    /\ run0 = << job.node, job.cutoff, TRUE >> )
  => /\ \A r \in hot0 : Cardinality({ x \in store[job.node] : x.id = r.id }) = 1
     /\ \A r \in hot : r.ts >= job.cutoff

\* No two rows the run has seen in events_hot share a created_at, so the
\* pages of LIMIT/OFFSET do not depend on how the engine orders ties.
NoTies == \A r1, r2 \in hot \cup removed : r1.ts = r2.ts => r1 = r2

\* C4: with the relay inserting into events_hot while the job runs, every
\* row the run has removed from events_hot is in the target node's store
\* (stated for runs in which no two rows share a created_at).
C4_NoLossUnderInserts ==
  (runs >= 1 /\ NoTies) => removed \subseteq store[job.node]

\* C5: every row an archive run has copied to a node has its created_at
\* inside the range of that node's attached partition.
C5_CopiedRowsInNodeRange ==
  \A n \in NodeNames : \A r \in store[n] : InRange(r.ts, attached[n])

\* C6: the event_tags entries of every event an archive run has moved out
\* of events_hot are the ones it had before the run.
C6_TagEntriesKept ==
  runs = 1 =>
    \A r \in hot0 \ hot :
      { e \in tagIndex : e.id = r.id } = { e \in tag0 : e.id = r.id }

\* C7 as stated: after every completed addNode, removeNode and narrowHot
\* every key is covered by an attached partition.
C7_NoGap == \A k \in Keys : Covered(k)

\* C7 as amended: after every completed addNode, removeNode and narrowHot
\* the attached partitions cover every key from the lower bound of
\* events_hot upward (keys below it may be left uncovered), and an attach is
\* refused only when the partition is already attached, its range is empty
\* or it overlaps an attached partition, never for leaving a gap.
C7_CoverFromHot ==
  /\ hotRange[2] = MAXVALUE
  /\ \A k \in Keys : k >= hotRange[1] => Covered(k)
  /\ \A addr \in Addrs, name \in NodeNames, from \in Keys, to \in BoundVals,
        key \in PubKeys \cup {NoKey} :
        ( /\ attached[name] = NoRange
          /\ from < to
          /\ ~ Overlaps(<< from, to >>, hotRange)
          /\ \A m \in NodeNames : ~ Overlaps(<< from, to >>, attached[m]) )
        => ~ ENABLED ( /\ AddNode(addr, name, from, to, key)
                       /\ report'.exit = 0
                       /\ ~ report'.attachOk )
\* C7 witness: an attach was accepted although a key is left uncovered.
C7_Witness ==
  /\ report.op = "add"
  /\ report.attachOk
  /\ \E k \in Keys : ~ Covered(k)

\* C8: no two attached partitions, events_hot included, have overlapping
\* ranges.
C8_NoOverlap ==
  /\ \A n \in NodeNames : ~ Overlaps(attached[n], hotRange)
  /\ \A n, m \in NodeNames : n # m => ~ Overlaps(attached[n], attached[m])
\* C8 witness: both nodes are attached and a further attach was refused.
C8_Witness ==
  /\ Cardinality(AttachedNames) = 2
  /\ report.op = "add"
  /\ report.exit = 0
  /\ ~ report.attachOk

\* C9: an addNode whose range overlaps the range of an attached node fails
\* and leaves the allow-list, nodes.json, the daemon and the foreign
\* server, foreign table and partitions as they were.
C9_OverlapRejectedCleanly ==
  [][ \A addr \in Addrs, name \in NodeNames, from \in Keys, to \in BoundVals,
        key \in PubKeys \cup {NoKey} :
        ( /\ AddNode(addr, name, from, to, key)
          /\ \E m \in NodeNames : Overlaps(<< from, to >>, attached[m]) )
        => /\ report'.exit # 0
           /\ UNCHANGED topoVars ]_vars

\* C10: an addNode whose partition attach failed does not report success.
C10_AttachFailureReported ==
  (report.op = "add" /\ ~ report.attachOk) => report.exit # 0

\* C11: an event identifier occurs at most once across the partitions of
\* the table events: not in events_hot and in an attached node's store at
\* once, and not in the stores of two attached nodes.
C11_IdUniqueAcrossPartitions ==
  /\ \A n \in AttachedNames : IdsOf(hot) \cap IdsOf(store[n]) = {}
  /\ \A n, m \in AttachedNames : n # m => IdsOf(store[n]) \cap IdsOf(store[m]) = {}

\* The partitions whose range contains key t.
PartsContaining(t) ==
  { p \in { HotName } \cup NodeNames :
      InRange(t, IF p = HotName THEN hotRange ELSE attached[p]) }

Intersects(rg, since, until) ==
  /\ rg # NoRange
  /\ since = NoBound \/ since < rg[2]
  /\ until = NoBound \/ rg[1] <= until
  /\ since = NoBound \/ until = NoBound \/ since <= until

C14_DetachBeforeDisallow ==
  \A p \in Procs :
    (proc[p].op = "remove" /\ proc[p].pc \notin { "idle", "failed" })
      => ~ ( /\ attached[proc[p].name] # NoRange
             /\ proc[p].stored # NoKey
             /\ ~ KeyListed(allowedKeys, proc[p].stored) )

\* C15: no command of remove-storage-node.sh changes the rows on a storage
\* node; and when the script has removed an attached node and
\* add-storage-node.sh is run next with the node's name, address, key and
\* range, the partition is attached on that range again, the foreign
\* server points to the address, the node still holds every row it held,
\* and the daemon accepts the node's key.
C15_RemoveThenAddRestores ==
  /\ [][ \A p \in Procs :
           ((\E name \in NameInputs : RemoveBegin(p, name)) \/ RemoveStep(p))
             => store' = store ]_vars
  /\ [](\A p \in Procs :
          ( /\ At(p, "add", "done")
            /\ proc[p].was.rg # NoRange
            /\ proc[p].name = proc[p].was.name
            /\ proc[p].addr = proc[p].was.addr
            /\ proc[p].key = proc[p].was.key
            /\ proc[p].rg = proc[p].was.rg )
          => /\ attached[proc[p].name] = proc[p].was.rg
             /\ ftable[proc[p].name]
             /\ fserver[proc[p].name] = proc[p].was.addr
             /\ proc[p].was.rows \subseteq store[proc[p].name]
             /\ proc[p].was.key # NoKey => KeyListed(daemonKeys, proc[p].was.key))
\* C15 witness: a node that held rows and had a key recorded was removed
\* and added again with what it had.
C15_Witness ==
  \E p \in Procs :
    /\ At(p, "add", "done")
    /\ proc[p].was.rg # NoRange
    /\ proc[p].was.rows # {}
    /\ proc[p].was.key # NoKey
    /\ proc[p].name = proc[p].was.name
    /\ proc[p].addr = proc[p].was.addr
    /\ proc[p].key = proc[p].was.key
    /\ proc[p].rg = proc[p].was.rg
    /\ store[proc[p].name] = proc[p].was.rows

\* C16: right after an archive run has finished, archive with the same node
\* and cutoff reports that there is nothing to do, exits 0, and leaves
\* events_hot and the stores as they are.
C16_SecondRunNoOp ==
  (pc = "idle" /\ report.op = "archive" /\ report.msg = "done")
    => \A bw \in 1 .. MaxWin, bs \in 1 .. MaxBatch, dry \in BOOLEAN,
          confirm \in BOOLEAN :
         /\ runs < MaxRuns
              => ENABLED ArchiveStart(job.node, job.cutoff, bw, bs, dry, confirm)
         /\ ~ ENABLED ( /\ ArchiveStart(job.node, job.cutoff, bw, bs, dry, confirm)
                        /\ ~ ( /\ report'.msg = "nothing-to-do"
                               /\ report'.exit = 0
                               /\ pc' = "idle"
                               /\ hot' = hot
                               /\ store' = store ) )
\* C16 witness: a run has finished and moved rows, and the next archive
\* call found nothing to do.
C16_Witness ==
  /\ report.op = "archive"
  /\ report.msg = "nothing-to-do"
  /\ pc = "idle"
  /\ runs >= 1
  /\ job.deleted > 0
  /\ store[job.node] # {}

\* C17: an archive run gets past its planning step only when the range of
\* the named node's partition covers the keys to be archived, from the
\* lowest created_at below the cutoff up to the cutoff.
C17_PlanChecksNodeRange ==
  pc \in { "window", "copy", "delete" }
    => /\ attached[job.node] # NoRange
       /\ attached[job.node][1] <= job.minTs
       /\ job.cutoff <= attached[job.node][2]

\* C18: every key in the allow-list the daemon runs with is the recorded
\* key of a node whose partition is attached.
C18_OnlyRegisteredKeysAccepted ==
  \A k \in PubKeys :
    KeyListed(daemonKeys, k)
      => \E n \in AttachedNames : nodesJson[n] = k

\* C19: after every completed add-storage-node.sh and
\* remove-storage-node.sh, AllowedPublicKeys holds exactly the keys that
\* nodes.json records for the nodes with an attached partition.
C19_AllowListMatchesRegistry ==
  { allowedKeys[i] : i \in 1 .. Len(allowedKeys) }
    = { nodesJson[n] : n \in AttachedNames } \ { NoKey }

\* C20: when two add-storage-node.sh runs with different names, different
\* keys and non-overlapping ranges (which do not overlap events_hot either)
\* have both ended, however their commands interleaved, both keys are in
\* AllowedPublicKeys, both names are recorded with their keys in nodes.json
\* and both partitions are attached.
C20_ConcurrentAddsBothApply ==
  ( /\ \A p \in Procs : proc[p].op = "add" /\ Finished(p)
    /\ proc[1].name # proc[2].name
    /\ proc[1].key # proc[2].key
    /\ ~ Overlaps(proc[1].rg, proc[2].rg)
    /\ \A p \in Procs : ~ Overlaps(proc[p].rg, hotRange) )
  => \A p \in Procs :
       /\ proc[p].pc = "done"
       /\ KeyListed(allowedKeys, proc[p].key)
       /\ nodesJson[proc[p].name] = proc[p].key
       /\ attached[proc[p].name] = proc[p].rg

\* C21: add-storage-node.sh, remove-storage-node.sh and archive-events.sh
\* called with a node name that is empty or holds a character other than a
\* letter, a digit or an underscore end with a non-zero exit status and
\* leave AllowedPublicKeys, nodes.json, the daemon, the foreign objects, the
\* partitions and all rows as they were.
C21_BadNameRejected ==
  [][ \A name \in BadNames :
        (AddNamed(name) \/ RemoveNode(name) \/ ArchiveNamed(name))
          => /\ report'.exit # 0
             /\ UNCHANGED << topoVars, dataVars >> ]_vars

\* C22: add-storage-node.sh called with the name of a node whose partition
\* is attached ends with a non-zero exit status and leaves the node's
\* foreign server, recorded key and range, AllowedPublicKeys and the daemon
\* as they were, whatever key and address the call carries.
C22_DuplicateNameRejected ==
  [][ \A addr \in Addrs, name \in NodeNames, from \in Keys, to \in BoundVals,
        key \in PubKeys \cup {NoKey} :
        ( /\ attached[name] # NoRange
          /\ AddNode(addr, name, from, to, key) )
        => /\ report'.exit # 0
           /\ UNCHANGED topoVars ]_vars

\* C23: remove-storage-node.sh called with a name for which there is no
\* partition, no foreign table, no foreign server and no recorded key ends
\* with a non-zero exit status and leaves AllowedPublicKeys, nodes.json, the
\* daemon and the partitions as they were.
C23_RemoveUnknownFails ==
  [][ \A name \in NodeNames :
        ( /\ attached[name] = NoRange
          /\ ~ ftable[name]
          /\ fserver[name] = NoAddr
          /\ nodesJson[name] = NoKey
          /\ RemoveNode(name) )
        => /\ report'.exit # 0
           /\ UNCHANGED topoVars ]_vars

\* C24: AllowedPublicKeys never holds a key twice; add-storage-node.sh
\* called with a key leaves the key in the list exactly once and every
\* other key as often as it was; when the key was not in the list the
\* daemon has been restarted and runs with the new list, and when it was,
\* the list is left as it is.
C24_AllowIdempotent ==
  LET count(keys, k) == Cardinality({ i \in 1 .. Len(keys) : keys[i] = k }) IN
  /\ \A k \in PubKeys : count(allowedKeys, k) <= 1
  /\ \A addr \in Addrs, name \in NodeNames, from \in Keys, to \in BoundVals,
        key \in PubKeys :
        from < to =>
          /\ ENABLED AddNode(addr, name, from, to, key)
          /\ ~ ENABLED
               ( /\ AddNode(addr, name, from, to, key)
                 /\ ~ ( /\ count(allowedKeys', key) = 1
                        /\ \A k \in PubKeys \ {key} :
                             count(allowedKeys', k) = count(allowedKeys, k)
                        /\ count(allowedKeys, key) = 0
                             => ( /\ daemonKeys' = allowedKeys'
                                  /\ count(daemonKeys', key) = 1 )
                        /\ count(allowedKeys, key) = 1
                             => allowedKeys' = allowedKeys ) )
\* C24 witness: the only attached node was added with a key that was in
\* the list already (no key is recorded for it), and the list holds that
\* key once.
C24_Witness ==
  /\ report.op = "add"
  /\ report.attachOk
  /\ ~ report.warn
  /\ Len(allowedKeys) = 1
  /\ daemonKeys = allowedKeys
  /\ \E n \in NodeNames : AttachedNames = {n} /\ nodesJson[n] = NoKey

\* C25: remove-storage-node.sh warns that the whitelist is empty exactly
\* when it has removed the last key of AllowedPublicKeys; in that case it
\* still ends with exit status 0, the daemon restarted with the empty list,
\* the name's record deleted and the partition detached.
C25_LastKeyWarning ==
  [][ \A name \in NodeNames :
        RemoveNode(name) =>
          /\ report'.warn <=> (Len(allowedKeys) > 0 /\ Len(allowedKeys') = 0)
          /\ (Len(allowedKeys) > 0 /\ Len(allowedKeys') = 0)
               => /\ report'.exit = 0
                  /\ daemonKeys' = << >>
                  /\ nodesJson'[name] = NoKey
                  /\ attached'[name] = NoRange ]_vars
\* C25 witness: a removal has detached a partition, left the list empty
\* and warned.
C25_Witness ==
  /\ report.op = "remove"
  /\ report.exit = 0
  /\ report.attachOk
  /\ report.warn
  /\ allowedKeys = << >>

C28_NoChangeWithoutConfirmation ==
  /\ (report.op = "archive"
        /\ report.msg \in { "dry-run", "aborted", "nothing-to-do" }) => pc = "idle"
  /\ pc = "idle" =>
       \A node \in NodeNames, cutoff \in 1 .. MAXVALUE, bw \in 1 .. MaxWin,
          bs \in 1 .. MaxBatch, dry \in BOOLEAN, confirm \in BOOLEAN :
         (dry \/ ~ confirm \/ { r \in hot : r.ts < cutoff } = {})
           => ~ ENABLED ( /\ ArchiveStart(node, cutoff, bw, bs, dry, confirm)
                          /\ ~ ( /\ pc' = "idle"
                                 /\ report'.exit \in { 0, 1 }
                                 /\ hot' = hot
                                 /\ store' = store
                                 /\ tagIndex' = tagIndex ) )
\* C28 witness: a call with --dry-run for a cutoff with rows below it has
\* ended, and events_hot holds the rows and event_tags their entries.
C28_Witness ==
  /\ report.op = "archive"
  /\ report.msg = "dry-run"
  /\ pc = "idle"
  /\ Cardinality(hot) >= 2
  /\ tagIndex # {}

\* C29: no row an archive run has removed from events_hot is a replaceable
\* event (kind 0, 3, 41, 10000-19999 or 30000-39999), whatever the cutoff.
C29_ReplaceableStaysHot ==
  \A r \in removed : ~ Replaceable(KindOf(r.id))

\* C30: add-storage-node.sh called for a name that is not attached, with a
\* range that overlaps the range of events_hot and no other partition's,
\* ends with the partition attached on that range and with events_hot
\* narrowed so that it no longer overlaps the range and still covers every
\* other key it covered.
C30_AddNarrowsHot ==
  [][ \A addr \in Addrs, name \in NodeNames, from \in Keys, to \in BoundVals,
        key \in PubKeys \cup {NoKey} :
        ( /\ from < to
          /\ Overlaps(<< from, to >>, hotRange)
          /\ attached[name] = NoRange
          /\ \A m \in NodeNames : ~ Overlaps(<< from, to >>, attached[m])
          /\ AddNode(addr, name, from, to, key) )
        => /\ attached'[name] = << from, to >>
           /\ ~ Overlaps(<< from, to >>, hotRange')
           /\ \A k \in Keys :
                (InRange(k, hotRange) /\ ~ InRange(k, << from, to >>))
                  => InRange(k, hotRange') ]_vars

\* C32: the windows of an archive run begin at the lowest created_at below
\* the cutoff and follow one another without gap or overlap, each
\* [start, end) of width --batch-window except a last one clipped to the
\* cutoff, in ascending order up to the cutoff; every row of events_hot in a
\* window already passed has been deleted and no row outside those windows
\* has; a window without rows is followed by no copy and no delete.
C32_WindowsTile ==
  runs >= 1 =>
    /\ job.minTs <= job.bStart
    /\ job.bStart <= job.cutoff
    /\ job.bStart = job.cutoff \/ (job.bStart - job.minTs) % job.bw = 0
    /\ runs = 1 => /\ \A r \in hot0 : job.minTs <= r.ts
                   /\ \E r \in hot0 : job.minTs = r.ts
    /\ pc \in { "copy", "delete" }
         => /\ job.bStart < job.cutoff
            /\ job.bEnd = IF job.bStart + job.bw > job.cutoff
                           THEN job.cutoff ELSE job.bStart + job.bw
            /\ job.wCount > 0
            /\ job.wCount = Cardinality(WindowRows(hot, job.bStart, job.bEnd))
    /\ \A r \in hot : ~ (job.minTs <= r.ts /\ r.ts < job.bStart)
    /\ \A r \in removed : job.minTs <= r.ts /\ r.ts < job.bStart
    /\ (pc = "idle" /\ report.msg = "done")
         => /\ job.bStart = job.cutoff
            /\ \A r \in hot : r.ts >= job.cutoff
\* C32 witness: a run with --batch-window 1 has finished; its first window
\* held rows and was deleted, its last window held none and was skipped.
C32_Witness ==
  /\ pc = "idle"
  /\ report.msg = "done"
  /\ job.bw = 1
  /\ job.cutoff - job.minTs >= 2
  /\ job.wCount = 0
  /\ removed # {}

\* C34: when an archive run left to itself (no kill, no failed copy, no
\* other writer) has finished, the count of rows copied it reports equals
\* the count of rows deleted and both equal the number of rows below the
\* cutoff counted at the start; and the count of rows copied never exceeds
\* that number.
C34_CountsAgree ==
  runs >= 1 =>
    /\ job.archived <= job.total
    /\ (pc = "idle" /\ report.msg = "done")
         => /\ job.archived = job.deleted
            /\ job.deleted = job.total
            /\ ~ report.warn

\* C35: in a run left to itself, when the sub-batch loop of a window has
\* gone through its offsets 0, BATCH_SIZE, 2*BATCH_SIZE, ... and the
\* window's delete is next, every row of the window has been selected by
\* one of the sub-batches and is therefore on the node, also when rows
\* share a created_at and when BATCH_SIZE does not divide the row count.
C35_SubBatchesCoverWindow ==
  pc = "delete" => WindowRows(hot, job.bStart, job.bEnd) \subseteq store[job.node]

\* C37: an archive run that has passed the confirmation reaches its end
\* ("Done.") whatever events_hot holds and whatever cutoff, --batch-window
\* and --batch-size were passed, when nothing else writes and every copy
\* and delete returns.
C37_RunReachesDone ==
  (pc # "idle") ~> (pc = "idle" /\ report.msg = "done")

\* C36: add-storage-node.sh with --pubkey was killed after the key was
\* written to AllowedPublicKeys and before the name was recorded in
\* nodes.json or before the daemon was restarted; when the script is then
\* run again with the same arguments and attaches the partition, it ends
\* with the name recorded with its key and the daemon running with the key.
C36_RetryCompletesAllow ==
  \A p \in Procs :
    ( /\ At(p, "add", "killed")
      /\ report.op = "add"
      /\ report.exit = 130
      /\ report.msg \in { "nodes-tmp", "nodes-mv", "restart" } )
    => ~ ENABLED
         ( /\ AddNode(proc[p].addr, proc[p].name, proc[p].rg[1], proc[p].rg[2],
                      proc[p].key)
           /\ report'.attachOk
           /\ ~ ( /\ nodesJson'[proc[p].name] = proc[p].key
                  /\ KeyListed(daemonKeys', proc[p].key) ) )

\* C33: for every event in events_hot, the entries event_tags holds for
\* its identifier are exactly the {name, value} pairs of its tags whose
\* name is one character and whose value is not empty, each once (nothing
\* is left of an earlier insert); and event_tags holds no entry of an event
\* that is not in events_hot.
C33_TagEntriesDerived ==
  /\ \A r \in hot :
       { e \in tagIndex : e.id = r.id }
         = { [id |-> r.id, name |-> t[1], value |-> t[2], n |-> 1] :
               t \in { u \in EventTagsOf(r.id) : Len(u[1]) = 1 /\ u[2] # << >> } }
  /\ \A e \in tagIndex : e.id \in IdsOf(hot)

\* C38: the migration either commits, and then events_hot covers MINVALUE
\* to MAXVALUE and holds every row the flat table held, no more and no
\* fewer, with event_tags as it was; or it rolls back, and then the flat
\* table, event_tags and the partitions are as they were.
C38_MigrationAllOrNothing ==
  [][ \A ok \in BOOLEAN :
        Migrate(ok) =>
          \/ /\ report'.msg = "committed"
             /\ hotRange' = << MINVALUE, MAXVALUE >>
             /\ hot' = flat
             /\ tagIndex' = tagIndex
          \/ /\ report'.msg = "rolled-back"
             /\ UNCHANGED << flat, hot, hotRange, tagIndex >> ]_vars

====
